---- MODULE Spec2Model ----
(***************************************************************************)
(* Credential resolution in youtube-autopilot.                             *)
(*                                                                         *)
(* One configuration directory (client_secrets.json, api_key.txt,          *)
(* service_account.json, token.pickle) and the client objects of           *)
(* src/scripts that resolve a credential against it:                       *)
(*   YouTubeAutopilot, YouTubeClientV2, YouTubeClient, YouTubeClientFull,  *)
(*   YouTubeOAuthSimple, YouTubeOAuthDebugClient.                          *)
(*                                                                         *)
(* A credential is a record [k, token, refresh_token, scopes]: token is    *)
(* the access token (tokens are numbered in the order the authorization    *)
(* server issued them), refresh_token says whether the credential carries  *)
(* a refresh token, scopes is what it was granted beyond read access.      *)
(* Expiry is a property of the access token against the clock: the         *)
(* variable dead holds the access tokens whose expiry is past.             *)
(***************************************************************************)
EXTENDS Integers, Sequences, FiniteSets, TLC

VARIABLES
    files,        \* which input files the configuration directory holds
    store,        \* contents of token.pickle
    dead,         \* access tokens whose expiry is in the past
    issued,       \* number of access tokens the authorization server issued
    client,       \* class of the current client object
    auth_method,  \* its configured auth_method
    self,         \* its fields
    pc,           \* position of YouTubeAutopilot._initialize_services
    idx,          \* position of its loop in auth_methods
    log,          \* calls made by the current resolution, in order
    store0,       \* token.pickle as the current resolution found it
    dead0,        \* the expired tokens when the current resolution started
    outcome,      \* how the last resolution ended
    runs,         \* resolutions started so far
    op,           \* the last operation called on the session, and what it did
    removed,      \* what clear_credentials last removed from the directory
    api_key_file, \* contents of api_key.txt
    key_call,     \* the last save_api_key and _load_api_key, and their results
    kb,           \* the knowledge files on disk, each with its content
    status_file,  \* contents of loader_status.json
    last_load,    \* the last load_knowledge_base that returned True
    kb_call       \* the last call on the knowledge loader, and what it did

\* The API key file and the knowledge base: no client of the credential
\* resolution reads or writes them.
side == <<api_key_file, key_call, kb, status_file, last_load, kb_call>>

vars == <<files, store, dead, issued, client, auth_method, self, pc, idx,
          log, store0, dead0, outcome, runs, op, removed, api_key_file,
          key_call, kb, status_file, last_load, kb_call>>

\* Resolutions per behaviour.
MaxRuns == 2

-----------------------------------------------------------------------------
\* Credentials

None == [k |-> "none", token |-> 0, refresh_token |-> FALSE, scopes |-> {}]

\* A token.pickle that exists and cannot be unpickled.
Corrupt == [k |-> "corrupt", token |-> 0, refresh_token |-> FALSE, scopes |-> {}]

\* service_account.Credentials loaded from service_account.json.
SACred == [k |-> "sa", token |-> 0, refresh_token |-> FALSE, scopes |-> {}]

\* A handle built with developerKey=api_key, holding no credential.
KeyHandle == [k |-> "key", token |-> 0, refresh_token |-> FALSE, scopes |-> {}]

\* A handle built with credentials=None.
AnonHandle == [k |-> "anon", token |-> 0, refresh_token |-> FALSE, scopes |-> {}]

\* Scope lists, by what they grant beyond youtube.readonly: uploading
\* (youtube, youtube.upload) and analytics (yt-analytics.readonly).
\* SCOPES of youtube_oauth_debug.py, FULL_SCOPES, config.oauth_scopes.
FullScopes == {"upload", "analytics"}

\* SCOPES of youtube_client_v2.py and youtube_client.py.
UploadScopes == {"upload"}

\* MINIMAL_SCOPES, and SCOPES of youtube_oauth_simple.py.
MinimalScopes == {}

OAuthCred(t, r, sc) ==
    [k |-> "cred", token |-> t, refresh_token |-> r, scopes |-> sc]

\* The credential a completed OAuth flow returns (access_type offline) when
\* it was started with the scope list sc.
NewCred(t, sc) == OAuthCred(t, TRUE, sc)

\* Faulty variant of Expired: every OAuth credential counts as expired.
ExpiredAlways(c) == c.k = "cred"

\* creds.expired
Expired(c) == c.k = "cred" /\ c.token \in dead

\* creds.valid
Valid(c) == c.k = "cred" /\ ~Expired(c)

\* creds.refresh(Request()) on success: a new access token, in place.
Refreshed(c, t) == [c EXCEPT !.token = t]

\* Faulty variant of NeedsRefresh: the refresh token is not asked for.
NeedsRefreshWithoutToken(c) == c # None /\ Expired(c)

\* Faulty variant of NeedsRefresh: the refresh branch is never taken.
NeedsRefreshNever(c) == FALSE

\* `creds and creds.expired and creds.refresh_token`
NeedsRefresh(c) == c # None /\ Expired(c) /\ c.refresh_token

\* Faulty variant of LoadOrNone: whatever the file yields is passed on.
LoadAnything(st) == st

\* Faulty variant of LoadOrNone: token.pickle is never read.
LoadNever(st) == None

\* pickle.load(token) inside try/except: an unreadable file leaves None.
LoadOrNone(st) == IF st.k = "cred" THEN st ELSE None

\* Faulty variant of SaveTo: the refresh token is not written.
SaveToWithoutRefreshToken(st, c, how) ==
    CASE how = "ok" -> [c EXCEPT !.refresh_token = FALSE]
      [] how = "open" -> st
      [] OTHER -> Corrupt

\* open(token_file, 'wb'); pickle.dump(creds, token) ending as `how`:
\* "ok", "open" (open raised, file untouched), "dump" (dump raised after
\* the file was truncated).
SaveTo(st, c, how) ==
    CASE how = "ok" -> c
      [] how = "open" -> st
      [] OTHER -> Corrupt

NoSelf == [credentials |-> None, youtube |-> None, analytics |-> None,
           channel_id |-> FALSE, scopes |-> FullScopes]

\* The two ways a write of token.pickle fails.
SaveFailures == {"open", "dump"}

\* No operation has been called on the session yet.
NoOp == [name |-> "none", did |-> "nothing"]

\* What a strategy initializer of YouTubeAutopilot hands back: its result,
\* the object's fields, token.pickle, the tokens issued, the calls it made.
\* An initializer is the set of these that the environment's answers allow.
Ret(ok, s, st, iss, ev) ==
    [ok |-> ok, self |-> s, store |-> st, issued |-> iss, ev |-> ev]

\* What a whole authentication hands back: res is "ok" (True, or a
\* credential), "failed" (False, or None) or "raised" (an exception left it).
Out(res, s, st, iss, ev) ==
    [res |-> res, self |-> s, store |-> st, issued |-> iss, ev |-> ev]

\* The calls of `if token_file.exists(): pickle.load(token)`.
LoadEv(st) == IF st # None THEN <<"load">> ELSE <<>>

-----------------------------------------------------------------------------
\* YouTubeAutopilot

\* Faulty variant of AP_build: the analytics handle is assigned before the
\* content handle's build() can raise.
AP_buildAnalyticsFirst(s, c, st, iss, ev) ==
    LET s1 == [s EXCEPT !.credentials = c] IN
    {Ret(FALSE, [s1 EXCEPT !.analytics = c], st, iss, ev \o <<"build">>)}
    \cup {Ret(TRUE, [s1 EXCEPT !.youtube = c, !.analytics = c], st, iss,
              ev \o <<"build">>)}

\* _initialize_oauth from `self.credentials = creds` on: build() raises, or
\* the handles are built (the analytics build may fail on its own).
AP_build(s, c, st, iss, ev) ==
    LET s1 == [s EXCEPT !.credentials = c] IN
    {Ret(FALSE, s1, st, iss, ev \o <<"build">>)}
    \cup {Ret(TRUE, [s1 EXCEPT !.youtube = c, !.analytics = a], st, iss,
              ev \o <<"build">>) : a \in {c, s1.analytics}}

\* Faulty variant of AP_save: self.credentials is assigned before the write.
AP_saveAfterAssign(s, c, st, iss, ev) ==
    {Ret(FALSE, [s EXCEPT !.credentials = c], SaveTo(st, c, how), iss,
         ev \o <<"save">>) : how \in SaveFailures}
    \cup AP_build(s, c, c, iss, ev \o <<"save">>)

\* _initialize_oauth from `# Save credentials` on.
AP_save(s, c, st, iss, ev) ==
    {Ret(FALSE, s, SaveTo(st, c, how), iss, ev \o <<"save">>) :
        how \in SaveFailures}
    \cup AP_build(s, c, c, iss, ev \o <<"save">>)

\* _initialize_oauth, the `if not creds:` block: the manual flow.
AP_flow(s, st, iss, ev) ==
    {Ret(FALSE, s, st, iss, ev \o <<"acquire", "flow">>)}
    \cup AP_save(s, NewCred(iss + 1, FullScopes), st, iss + 1, ev \o <<"acquire", "flow">>)

\* _initialize_oauth
AP_initialize_oauth(s, st, iss) ==
    IF ~files.client_secrets
    THEN {Ret(FALSE, s, st, iss, <<>>)}
    ELSE
    LET creds == LoadOrNone(st)
        ev == LoadEv(st)
    IN  IF creds # None /\ Valid(creds)
        THEN AP_build(s, creds, st, iss, ev)
        ELSE IF NeedsRefresh(creds)
        THEN AP_save(s, Refreshed(creds, iss + 1), st, iss + 1,
                     ev \o <<"refresh">>)
             \cup AP_flow(s, st, iss, ev \o <<"refresh", "refresh_denied">>)
        ELSE IF creds = None
        THEN AP_flow(s, st, iss, ev)
        ELSE AP_save(s, creds, st, iss, ev)

\* _initialize_api_key
AP_initialize_api_key(s, st, iss) ==
    IF ~files.api_key
    THEN {Ret(FALSE, s, st, iss, <<>>)}
    ELSE {Ret(FALSE, s, st, iss, <<"build">>),
          Ret(TRUE, [s EXCEPT !.youtube = KeyHandle], st, iss, <<"build">>)}

\* _initialize_service_account
AP_initialize_service_account(s, st, iss) ==
    IF ~files.service_account
    THEN {Ret(FALSE, s, st, iss, <<>>)}
    ELSE {Ret(FALSE, s, st, iss, <<"sa_load">>)}
         \cup AP_build(s, SACred, st, iss, <<"sa_load">>)

\* Faulty variant of AuthMethods: the auto list in another order.
AuthMethodsServiceFirst(am) ==
    IF am = "auto"
    THEN <<"service_account", "oauth", "api_key">>
    ELSE <<am>>

\* Faulty variant of AuthMethods: the configured method is ignored.
AuthMethodsAlwaysAll(am) == <<"oauth", "api_key", "service_account">>

\* auth_methods as _initialize_services builds it
AuthMethods(am) ==
    IF am = "auto"
    THEN <<"oauth", "api_key", "service_account">>
    ELSE <<am>>

\* Faulty variant of AuthMethodValues: the conversion accepts any string.
AuthMethodValuesUnchecked ==
    {"auto", "oauth", "api_key", "service_account", "bogus"}

\* The AuthMethod enum's values; AuthMethod(x) raises ValueError on others.
AuthMethodValues == {"auto", "oauth", "api_key", "service_account"}

\* The initializer the loop body calls for `method`.
AP_dispatch(method, s, st, iss) ==
    CASE method = "oauth" -> AP_initialize_oauth(s, st, iss)
      [] method = "api_key" -> AP_initialize_api_key(s, st, iss)
      [] OTHER -> AP_initialize_service_account(s, st, iss)

\* Faulty variant of LoopExit: the `break` is missing.
LoopExitNoBreak(ok, i, n) == i >= n

\* Faulty variant of LoopExit: a failed strategy ends the loop.
LoopExitOnFailure(ok, i, n) == TRUE

\* Whether the for loop is left after the iteration at position i of n:
\* `break` on success, or the list is exhausted.
LoopExit(ok, i, n) == ok \/ i >= n

Idle == pc = "idle" /\ runs < MaxRuns

\* YouTubeAutopilot(auth_method=am): __init__ up to the for loop.
AutopilotStart(am) ==
    /\ Idle
    /\ client' = "autopilot"
    /\ auth_method' = am
    /\ self' = NoSelf
    /\ store0' = store
    /\ dead0' = dead
    /\ log' = <<>>
    /\ runs' = runs + 1
    /\ IF am \in AuthMethodValues
       THEN pc' = "loop" /\ idx' = 1 /\ outcome' = "none"
       ELSE pc' = "idle" /\ idx' = 0 /\ outcome' = "raised"
    /\ op' = NoOp
    /\ removed' = None
    /\ UNCHANGED <<files, store, dead, issued>>
    /\ UNCHANGED side

\* One iteration of `for method in auth_methods`.
AutopilotLoop ==
    /\ pc = "loop"
    /\ LET method == AuthMethods(auth_method)[idx] IN
       \E r \in AP_dispatch(method, self, store, issued) :
            /\ self' = r.self
            /\ store' = r.store
            /\ issued' = r.issued
            /\ log' = log \o <<method>> \o r.ev
                          \o <<IF r.ok THEN "ok" ELSE "fail">>
            /\ IF LoopExit(r.ok, idx, Len(AuthMethods(auth_method)))
               THEN pc' = "after" /\ idx' = idx
               ELSE pc' = "loop" /\ idx' = idx + 1
    /\ UNCHANGED <<files, dead, client, auth_method, store0, dead0, outcome,
                   runs, op,
                   removed>>
    /\ UNCHANGED side

\* Faulty variant of NoServiceBuilt: the check after the loop is missing.
NoServiceBuiltIgnored(s) == FALSE

\* `if not self.youtube_service:` after the loop.
NoServiceBuilt(s) == s.youtube = None

\* The exception `raise Exception("Failed to initialize any authentication
\* method")` constructs: a message, and nothing of what each strategy
\* reported (that went to logger.warning / logger.error only).
TerminalFailure ==
    [message |-> "Failed to initialize any authentication method",
     causes |-> <<>>]

\* _initialize_services after the loop: the terminal failure, or
\* _get_channel_info, which returns at once without a content handle and
\* otherwise asks for the channel and keeps its id when one comes back.
AutopilotAfter ==
    /\ pc = "after"
    /\ pc' = "idle"
    /\ IF NoServiceBuilt(self)
       THEN /\ outcome' = "raised"
            /\ UNCHANGED <<self, log>>
       ELSE /\ outcome' = "ok"
            /\ IF self.youtube = None
               THEN UNCHANGED <<self, log>>
               ELSE \E found \in BOOLEAN :
                       /\ self' = [self EXCEPT !.channel_id = found]
                       /\ log' = log \o (IF found THEN <<"probe">>
                                         ELSE <<"probe", "no_channel">>)
    /\ UNCHANGED <<files, store, dead, issued, client, auth_method, idx,
                   store0, dead0, runs, op,
                   removed>>
    /\ UNCHANGED side

\* get_auth_method; hasattr(credentials, 'refresh_token') is taken to hold
\* of OAuth credentials and not of service account credentials.
AP_get_auth_method(s) ==
    IF s.credentials # None
    THEN IF s.credentials.k = "cred" THEN "OAuth 2.0" ELSE "Service Account"
    ELSE "API Key"

\* test_connection: the dictionary it starts from.
AP_test_connection(s) ==
    [authenticated |-> s.credentials # None \/ s.youtube # None,
     youtube_api |-> s.youtube # None,
     analytics_api |-> s.analytics # None,
     channel_access |-> s.channel_id]

\* What an operation did: returned its empty value at the guard ("refused"),
\* raised before any request left the process ("local_error"), or issued a
\* request to the API ("request").
Did(name, did) == [name |-> name, did |-> did]

\* upload_video(video_path, ...): `if not self.youtube_service` is the only
\* check; MediaFileUpload raises on an unreadable file; then
\* videos().insert(...).execute().
AP_upload_video(s, readable) ==
    IF s.youtube = None THEN Did("upload_video", "refused")
    ELSE IF ~readable THEN Did("upload_video", "local_error")
    ELSE Did("upload_video", "request")

\* update_video(video_id, ...): `if not self.youtube_service`, then
\* videos().list(...).execute().
AP_update_video(s) ==
    IF s.youtube = None THEN Did("update_video", "refused")
    ELSE Did("update_video", "request")

\* get_channel_analytics(days)
AP_get_channel_analytics(s) ==
    IF s.analytics = None \/ ~s.channel_id
    THEN Did("get_channel_analytics", "refused")
    ELSE Did("get_channel_analytics", "request")

\* get_video_analytics(video_id, days): `if not self.analytics_service` is the
\* only check; the query is sent with ids = 'channel==' + str(channel_id).
AP_get_video_analytics(s) ==
    IF s.analytics = None
    THEN Did("get_video_analytics", "refused")
    ELSE Did("get_video_analytics", "request")

\* get_channel_videos(max_results)
AP_get_channel_videos(s) ==
    IF s.youtube = None \/ ~s.channel_id
    THEN Did("get_channel_videos", "refused")
    ELSE Did("get_channel_videos", "request")

\* A caller holds a YouTubeAutopilot object: its constructor returned.
HasSession == client = "autopilot" /\ pc = "idle" /\ outcome = "ok"

\* One call of an operation on the session.
Operation(d) ==
    /\ HasSession
    /\ op' = d
    /\ UNCHANGED <<files, store, dead, issued, client, auth_method, self, pc,
                   idx, log, store0, dead0, outcome, runs,
                   removed>>
    /\ UNCHANGED side

UploadVideo(readable) == Operation(AP_upload_video(self, readable))

UpdateVideo == Operation(AP_update_video(self))

GetChannelAnalytics == Operation(AP_get_channel_analytics(self))

GetVideoAnalytics == Operation(AP_get_video_analytics(self))

GetChannelVideos == Operation(AP_get_channel_videos(self))

-----------------------------------------------------------------------------
\* YouTubeClientV2

\* _try_service_account_auth
V2_try_service_account_auth(s, st, iss) ==
    IF ~files.service_account
    THEN {Out("failed", s, st, iss, <<>>)}
    ELSE {Out("ok", [s EXCEPT !.credentials = SACred], st, iss, <<"sa_load">>),
          Out("failed", s, st, iss, <<"sa_load">>)}

\* _try_oauth_auth, the `if not creds:` block: the local-server flow and the
\* save, in one try.
V2_flow(s, st, iss, ev) ==
    IF ~files.client_secrets
    THEN {Out("failed", s, st, iss, ev \o <<"acquire">>)}
    ELSE {Out("failed", s, st, iss, ev \o <<"acquire", "flow">>)}
         \cup {Out("failed", s, SaveTo(st, NewCred(iss + 1, UploadScopes), how), iss + 1,
                   ev \o <<"acquire", "flow", "save">>) : how \in SaveFailures}
         \cup {Out("ok", [s EXCEPT !.credentials = NewCred(iss + 1, UploadScopes)],
                   NewCred(iss + 1, UploadScopes), iss + 1,
                   ev \o <<"acquire", "flow", "save">>)}

\* _try_oauth_auth; the credential it returns is credentials of the result.
V2_try_oauth_auth(s, st, iss) ==
    LET creds == LoadOrNone(st)
        ev == LoadEv(st)
    IN  IF creds # None /\ Valid(creds)
        THEN {Out("ok", [s EXCEPT !.credentials = creds], st, iss, ev)}
        ELSE IF NeedsRefresh(creds)
        THEN {Out("ok", [s EXCEPT !.credentials = Refreshed(creds, iss + 1)],
                  st, iss + 1, ev \o <<"refresh">>)}
             \cup V2_flow(s, st, iss, ev \o <<"refresh", "refresh_denied">>)
        ELSE IF creds = None
        THEN V2_flow(s, st, iss, ev)
        ELSE {Out("ok", [s EXCEPT !.credentials = creds], st, iss, ev)}

\* One strategy call of _authenticate with its result, as logged.
V2_logged(name, r) ==
    [r EXCEPT !.ev = <<name>> \o r.ev \o <<IF r.res = "ok" THEN "ok" ELSE "fail">>]

\* Faulty variant of V2_authenticate: auto tries OAuth before the service
\* account.
V2_authenticateOAuthFirst(am, s, st, iss) ==
    LET sa == {V2_logged("service_account", r) :
                  r \in V2_try_service_account_auth(s, st, iss)}
        oa == {V2_logged("oauth", r) : r \in V2_try_oauth_auth(s, st, iss)}
    IN  CASE am = "auto" ->
                UNION {IF r.self.credentials # None
                       THEN {r}
                       ELSE {[q EXCEPT !.ev = r.ev \o q.ev] : q \in sa} :
                       r \in oa}
          [] am = "service_account" -> sa
          [] am = "oauth" -> oa
          [] OTHER -> {Out("raised", s, st, iss, <<>>)}

\* _authenticate
V2_authenticate(am, s, st, iss) ==
    LET sa == {V2_logged("service_account", r) :
                  r \in V2_try_service_account_auth(s, st, iss)}
        oa == {V2_logged("oauth", r) : r \in V2_try_oauth_auth(s, st, iss)}
    IN  CASE am = "auto" ->
                UNION {IF r.self.credentials # None
                       THEN {r}
                       ELSE {[q EXCEPT !.ev = r.ev \o q.ev] : q \in oa} :
                       r \in sa}
          [] am = "service_account" -> sa
          [] am = "oauth" -> oa
          [] OTHER -> {Out("raised", s, st, iss, <<>>)}

\* YouTubeClientV2(configs_dir, am): __init__
V2Init(am) ==
    /\ Idle
    /\ client' = "v2"
    /\ auth_method' = am
    /\ store0' = store
    /\ dead0' = dead
    /\ runs' = runs + 1
    /\ \E r \in V2_authenticate(am, NoSelf, store, issued) :
        LET has == r.self.credentials # None IN
        \E built \in IF has THEN BOOLEAN ELSE {FALSE} :
            /\ store' = r.store
            /\ issued' = r.issued
            /\ log' = r.ev \o (IF has THEN <<"build">> ELSE <<>>)
            /\ self' = IF built
                       THEN [r.self EXCEPT !.youtube = r.self.credentials]
                       ELSE r.self
            /\ outcome' = CASE r.res = "raised" -> "raised"
                            [] has /\ ~built -> "raised"
                            [] has -> "ok"
                            [] OTHER -> "failed"
    /\ op' = NoOp
    /\ removed' = None
    /\ UNCHANGED <<files, dead, pc, idx>>
    /\ UNCHANGED side

-----------------------------------------------------------------------------
\* YouTubeClient

\* _get_credentials from the save on; nothing here is caught.
CL_save(s, c, st, iss, ev) ==
    {Out("raised", s, SaveTo(st, c, how), iss, ev \o <<"save">>) :
        how \in SaveFailures}
    \cup {Out("ok", [s EXCEPT !.credentials = c], c, iss, ev \o <<"save">>)}

\* _get_credentials
CL_get_credentials(s, st, iss) ==
    IF st = Corrupt
    THEN {Out("raised", s, st, iss, <<"load">>)}
    ELSE
    LET creds == st
        ev == LoadEv(st)
    IN  IF creds # None /\ Valid(creds)
        THEN {Out("ok", [s EXCEPT !.credentials = creds], st, iss, ev)}
        ELSE IF NeedsRefresh(creds)
        THEN {Out("raised", s, st, iss, ev \o <<"refresh", "refresh_denied">>)}
             \cup CL_save(s, Refreshed(creds, iss + 1), st, iss + 1,
                          ev \o <<"refresh">>)
        ELSE IF ~files.client_secrets
        THEN {Out("failed", s, st, iss, ev \o <<"acquire">>)}
        ELSE {Out("raised", s, st, iss, ev \o <<"acquire", "flow">>)}
             \cup CL_save(s, NewCred(iss + 1, UploadScopes), st, iss + 1,
                          ev \o <<"acquire", "flow">>)

\* YouTubeClient(configs_dir): __init__
ClientInit ==
    /\ Idle
    /\ client' = "client"
    /\ auth_method' = "oauth"
    /\ store0' = store
    /\ dead0' = dead
    /\ runs' = runs + 1
    /\ \E r \in CL_get_credentials(NoSelf, store, issued) :
        LET handle == IF r.self.credentials = None THEN AnonHandle
                      ELSE r.self.credentials
        IN  \E built \in IF r.res = "raised" THEN {FALSE} ELSE BOOLEAN :
            /\ store' = r.store
            /\ issued' = r.issued
            /\ log' = r.ev \o (IF r.res # "raised" THEN <<"build">> ELSE <<>>)
            /\ self' = IF built THEN [r.self EXCEPT !.youtube = handle] ELSE r.self
            /\ outcome' = IF built THEN r.res ELSE "raised"
    /\ op' = NoOp
    /\ removed' = None
    /\ UNCHANGED <<files, dead, pc, idx>>
    /\ UNCHANGED side

-----------------------------------------------------------------------------
\* YouTubeClientFull

\* _build_services, with _get_channel_id: channel_id is assigned only when
\* the probe returns a channel, and is left as it was otherwise.
FU_build_services(s, st, iss, ev) ==
    {Out("failed", s, st, iss, ev \o <<"build">>)}
    \cup {Out("ok",
              [s EXCEPT !.youtube = s.credentials, !.analytics = a,
                        !.channel_id = IF found THEN TRUE ELSE s.channel_id],
              st, iss,
              ev \o (IF found THEN <<"build", "probe">>
                     ELSE <<"build", "probe", "no_channel">>)) :
            a \in {s.credentials, None}, found \in BOOLEAN}

\* test_full_access, the entry it fills without asking the API.
FU_test_full_access(s) == [authenticated |-> s.credentials # None]

\* authenticate
FU_authenticate(s, st, iss) ==
    IF st = None
    THEN {Out("failed", s, st, iss, <<>>)}
    ELSE IF st = Corrupt
    THEN {Out("failed", [s EXCEPT !.credentials = None], st, iss, <<"load">>)}
    ELSE
    LET s1 == [s EXCEPT !.credentials = st]
        cleared == [s EXCEPT !.credentials = None]
        fresh == Refreshed(st, iss + 1)
    IN  IF Valid(st)
        THEN FU_build_services(s1, st, iss, <<"load">>)
        ELSE IF NeedsRefresh(st)
        THEN {Out("failed", cleared, st, iss,
                  <<"load", "refresh", "refresh_denied">>)}
             \cup {Out("failed", cleared, SaveTo(st, fresh, how), iss + 1,
                       <<"load", "refresh", "save">>) : how \in SaveFailures}
             \cup FU_build_services([s EXCEPT !.credentials = fresh], fresh,
                                    iss + 1, <<"load", "refresh", "save">>)
        ELSE {Out("failed", s1, st, iss, <<"load">>)}

-----------------------------------------------------------------------------
\* YouTubeOAuthSimple

\* _build_services
SI_build_services(s, st, iss, ev) ==
    {Out("failed", s, st, iss, ev \o <<"build">>),
     Out("ok", [s EXCEPT !.youtube = s.credentials], st, iss, ev \o <<"build">>)}

\* authenticate_manual from `# Start new OAuth flow` on
SI_flow(s, st, iss, ev) ==
    IF ~files.client_secrets
    THEN {Out("failed", s, st, iss, ev \o <<"acquire">>)}
    ELSE
    LET s1 == [s EXCEPT !.credentials = NewCred(iss + 1, s.scopes)] IN
    {Out("failed", s, st, iss, ev \o <<"acquire", "flow">>)}
    \cup {Out("failed", s1, SaveTo(st, NewCred(iss + 1, s.scopes), how), iss + 1,
              ev \o <<"acquire", "flow", "save">>) : how \in SaveFailures}
    \cup SI_build_services(s1, NewCred(iss + 1, s.scopes), iss + 1,
                           ev \o <<"acquire", "flow", "save">>)

\* authenticate_manual
SI_authenticate_manual(s, st, iss) ==
    IF st = None
    THEN SI_flow(s, st, iss, <<>>)
    ELSE IF st = Corrupt
    THEN SI_flow([s EXCEPT !.credentials = None], st, iss, <<"load">>)
    ELSE
    LET s1 == [s EXCEPT !.credentials = st]
        cleared == [s EXCEPT !.credentials = None]
        fresh == Refreshed(st, iss + 1)
    IN  IF Valid(st)
        THEN SI_build_services(s1, st, iss, <<"load">>)
        ELSE IF NeedsRefresh(st)
        THEN SI_flow(cleared, st, iss, <<"load", "refresh", "refresh_denied">>)
             \cup UNION {SI_flow(cleared, SaveTo(st, fresh, how), iss + 1,
                                 <<"load", "refresh", "save">>) :
                            how \in SaveFailures}
             \cup SI_build_services([s EXCEPT !.credentials = fresh], fresh,
                                    iss + 1, <<"load", "refresh", "save">>)
        ELSE SI_flow(s1, st, iss, <<"load">>)

-----------------------------------------------------------------------------
\* YouTubeOAuthDebugClient

\* _build_services
DB_build_services(s, st, iss, ev) ==
    {Out("failed", s, st, iss, ev \o <<"build">>)}
    \cup {Out("ok", [s EXCEPT !.youtube = s.credentials, !.analytics = a],
              st, iss, ev \o <<"build">>) :
            a \in IF "analytics" \in s.scopes
                  THEN {s.credentials, s.analytics}
                  ELSE {s.analytics}}

\* test_connection, the entries it fills without asking the API:
\* upload_access is read off the scope list the client was constructed with.
DB_test_connection(s) ==
    [authenticated |-> s.credentials # None,
     upload_access |-> s.credentials # None /\ "upload" \in s.scopes]

\* _run_oauth_flow
DB_run_oauth_flow(s, st, iss, ev) ==
    IF ~files.client_secrets
    THEN {Out("failed", s, st, iss, ev \o <<"acquire">>)}
    ELSE {Out("failed", s, st, iss, ev \o <<"acquire", "flow">>),
          Out("ok", [s EXCEPT !.credentials = NewCred(iss + 1, s.scopes)], st, iss + 1,
              ev \o <<"acquire", "flow">>)}

\* authenticate from `# Save credentials` on: a failed save is only logged.
DB_save(s, st, iss, ev) ==
    UNION {DB_build_services(s, SaveTo(st, s.credentials, how), iss,
                             ev \o <<"save">>) :
              how \in SaveFailures \cup {"ok"}}

\* authenticate
DB_authenticate(force_refresh, s, st, iss) ==
    LET load == ~force_refresh /\ st # None
        s1 == IF load THEN [s EXCEPT !.credentials = LoadOrNone(st)] ELSE s
        ev == (IF force_refresh THEN <<"force">> ELSE <<>>)
              \o (IF load THEN <<"load">> ELSE <<>>)
        creds == s1.credentials
        cleared == [s1 EXCEPT !.credentials = None]
    IN  IF creds # None /\ Valid(creds)
        THEN DB_save(s1, st, iss, ev)
        ELSE IF NeedsRefresh(creds)
        THEN DB_save([s1 EXCEPT !.credentials = Refreshed(creds, iss + 1)],
                     st, iss + 1, ev \o <<"refresh">>)
             \cup DB_run_oauth_flow(cleared, st, iss,
                                    ev \o <<"refresh", "refresh_denied">>)
        ELSE IF creds = None
        THEN DB_run_oauth_flow(s1, st, iss, ev)
        ELSE DB_save(s1, st, iss, ev)

-----------------------------------------------------------------------------
\* Construction of the clients whose authentication is a separate call:
\* YouTubeClientFull(), YouTubeOAuthSimple(),
\* YouTubeOAuthDebugClient(use_minimal_scopes=minimal).
New(kind, minimal) ==
    /\ Idle
    /\ client' = kind
    /\ auth_method' = "oauth"
    /\ self' = [NoSelf EXCEPT !.scopes = IF kind = "simple" \/ minimal
                                         THEN MinimalScopes
                                         ELSE FullScopes]
    /\ log' = <<>>
    /\ outcome' = "none"
    /\ op' = NoOp
    /\ removed' = None
    /\ store0' = store
    /\ dead0' = dead
    /\ UNCHANGED <<files, store, dead, issued, pc, idx, runs>>
    /\ UNCHANGED side

\* The effect of one authentication call that returned r.
Authenticated(r) ==
    /\ self' = r.self
    /\ store' = r.store
    /\ issued' = r.issued
    /\ log' = r.ev
    /\ outcome' = r.res
    /\ store0' = store
    /\ dead0' = dead
    /\ runs' = runs + 1
    /\ op' = NoOp
    /\ UNCHANGED removed
    /\ UNCHANGED <<files, dead, client, auth_method, pc, idx>>
    /\ UNCHANGED side

FullAuthenticate ==
    /\ Idle
    /\ client = "full"
    /\ \E r \in FU_authenticate(self, store, issued) : Authenticated(r)

SimpleAuthenticate ==
    /\ Idle
    /\ client = "simple"
    /\ \E r \in SI_authenticate_manual(self, store, issued) : Authenticated(r)

DebugAuthenticate(force_refresh) ==
    /\ Idle
    /\ client = "debug"
    /\ \E r \in DB_authenticate(force_refresh, self, store, issued) :
        Authenticated(r)

\* clear_credentials of YouTubeOAuthDebugClient and YouTubeOAuthSimple:
\* token.pickle is unlinked when it exists; no field of the object changes.
\* log, outcome and store0 start over: they describe the calls after it.
ClearCredentials ==
    /\ pc = "idle"
    /\ client \in {"debug", "simple"}
    /\ store # None
    /\ store' = None
    /\ removed' = store
    /\ log' = <<"clear">>
    /\ outcome' = "none"
    /\ store0' = None
    /\ UNCHANGED <<files, dead, issued, client, auth_method, self, pc, idx,
                   dead0, runs, op>>
    /\ UNCHANGED side

-----------------------------------------------------------------------------
\* The environment

\* The access tokens some credential on disk or in memory carries.
Held == {c.token : c \in {d \in {store, self.credentials} : d.k = "cred"}}

\* The clock passes the expiry of an access token.
TokenExpires ==
    /\ pc = "idle"
    /\ \E t \in Held \ dead : dead' = dead \cup {t}
    /\ UNCHANGED <<files, store, issued, client, auth_method, self, pc, idx,
                   log, store0, dead0, outcome, runs, op,
                   removed>>
    /\ UNCHANGED side

-----------------------------------------------------------------------------
\* api_key.txt (youtube_client_apikey.py)
\*
\* A text is the sequence of its characters. The file is opened in text
\* mode for both directions, so a read translates line endings.

\* Characters per key.
MaxKeyLen == 3

\* One ordinary character, a blank, and the two line-ending characters.
Chars == {"a", " ", "\n", "\r"}

Texts == UNION {[1..n -> Chars] : n \in 0..MaxKeyLen}

\* The characters str.strip() removes, among Chars.
Whitespace == {" ", "\n", "\r"}

RECURSIVE LStrip(_)
LStrip(t) ==
    IF t # <<>> /\ Head(t) \in Whitespace THEN LStrip(Tail(t)) ELSE t

RECURSIVE RStrip(_)
RStrip(t) ==
    IF t # <<>> /\ t[Len(t)] \in Whitespace
    THEN RStrip(SubSeq(t, 1, Len(t) - 1))
    ELSE t

\* str.strip()
Strip(t) == RStrip(LStrip(t))

\* What f.read() returns for a file opened with open(path, 'r'): "\r\n" and
\* a lone "\r" both arrive as "\n".
RECURSIVE UniversalNewlines(_)
UniversalNewlines(t) ==
    IF t = <<>> THEN <<>>
    ELSE IF Head(t) = "\r"
         THEN <<"\n">> \o UniversalNewlines(IF Len(t) > 1 /\ t[2] = "\n"
                                            THEN Tail(Tail(t))
                                            ELSE Tail(t))
         ELSE <<Head(t)>> \o UniversalNewlines(Tail(t))

NoKeyFile == [exists |-> FALSE, text |-> <<>>]

\* `return None` of _load_api_key.
NoKey == [found |-> FALSE, text |-> <<>>]

\* The ways the write of api_key.txt can fail: open() raises and the file is
\* as it was, or f.write() raises after open(..., 'w') truncated it.
SaveKeyFailures == {"open", "write"}

\* save_api_key(configs_dir, api_key): the file afterwards and the result.
AK_save_api_key(file, api_key, how) ==
    CASE how = "ok"    -> [file |-> [exists |-> TRUE, text |-> api_key],
                           ok |-> TRUE]
      [] how = "open"  -> [file |-> file, ok |-> FALSE]
      [] how = "write" -> [file |-> [exists |-> TRUE, text |-> <<>>],
                           ok |-> FALSE]

\* The read of _load_api_key without its strip().
AK_load_api_key_unstripped(configs_dir, file, readable) ==
    IF ~configs_dir THEN NoKey
    ELSE IF file.exists /\ readable
         THEN [found |-> TRUE, text |-> UniversalNewlines(file.text)]
         ELSE NoKey

\* YouTubeClientAPIKey._load_api_key(configs_dir). configs_dir is FALSE for
\* None; readable is FALSE when open() or read() raises, which is logged.
AK_load_api_key(configs_dir, file, readable) ==
    IF ~configs_dir THEN NoKey
    ELSE IF file.exists /\ readable
         THEN [found |-> TRUE, text |-> Strip(UniversalNewlines(file.text))]
         ELSE NoKey

\* No call on the key file yet.
NoKeyCall ==
    [op |-> "none", api_key |-> <<>>, saved |-> FALSE, configs_dir |-> FALSE,
     readable |-> FALSE, result |-> NoKey]

-----------------------------------------------------------------------------
\* The knowledge base and loader_status.json (tools/knowledge_loader.py)
\*
\* The files on disk are a function from the paths that exist to their
\* contents. _save_status and _detect_changes walk the same three groups of
\* paths: core_docs/*.md, knowledge_cards/**/*.yaml and three project files.

\* Contents per file range over 0..MaxContent.
MaxContent == 1

\* One path of each group.
Paths == {"core_docs/a.md", "knowledge_cards/c/x.yaml",
          "automation_status.json"}

Contents == 0..MaxContent

\* Every knowledge base there can be, the empty one included.
KnowledgeBases == UNION {[d -> Contents] : d \in SUBSET Paths}

\* hashlib.md5(content.encode()).hexdigest(): a digest, equal for equal
\* contents and taken to differ for different ones.
Md5(content) == <<"md5", content>>

\* No file at all.
NoFiles == [p \in {} |-> 0]

\* The file_hashes dictionary built by walking the files on disk.
FileHashes(disk) == [p \in DOMAIN disk |-> Md5(disk[p])]

\* loader_status.json does not exist.
NoStatus == [exists |-> FALSE, file_hashes |-> FileHashes(NoFiles)]

\* get_status().get("file_hashes"), an empty dictionary when the file is
\* missing ({"status": "not_loaded"} has no such key).
KL_file_hashes(status) ==
    IF status.exists THEN status.file_hashes ELSE FileHashes(NoFiles)

\* _detect_changes: True when nothing is recorded, when a file on disk has
\* no recorded hash or another one, and when anything raises (readable is
\* FALSE); False otherwise. Only the files on disk are walked.
KL_detect_changes(disk, status, readable) ==
    \/ ~readable
    \/ DOMAIN KL_file_hashes(status) = {}
    \/ \E p \in DOMAIN disk :
          \/ p \notin DOMAIN KL_file_hashes(status)
          \/ Md5(disk[p]) # KL_file_hashes(status)[p]

\* _save_status: the hashes of the files on disk are written, unless the
\* write raises, which is printed as a warning and nothing else.
KL_save_status(disk, status, writable) ==
    IF writable
    THEN [exists |-> TRUE, file_hashes |-> FileHashes(disk)]
    ELSE status

\* load_knowledge_base: parses is FALSE when a manifest or a card cannot be
\* parsed, and then it returns False before _save_status.
KL_load_knowledge_base(disk, status, parses, writable) ==
    IF parses
    THEN [ok |-> TRUE, status |-> KL_save_status(disk, status, writable),
          recorded |-> writable]
    ELSE [ok |-> FALSE, status |-> status, recorded |-> FALSE]

\* update_knowledge_base: reloads exactly when _detect_changes says so.
KL_update_knowledge_base(disk, status, readable, parses, writable) ==
    IF KL_detect_changes(disk, status, readable)
    THEN [detected |-> TRUE, reloaded |-> TRUE,
          load |-> KL_load_knowledge_base(disk, status, parses, writable)]
    ELSE [detected |-> FALSE, reloaded |-> FALSE,
          load |-> [ok |-> TRUE, status |-> status, recorded |-> FALSE]]

\* No load has succeeded yet. recorded: that load wrote its status;
\* touched: a file was written or deleted since.
NeverLoaded == [loaded |-> FALSE, recorded |-> FALSE, touched |-> FALSE]

\* No call on the loader yet.
NoKbCall ==
    [op |-> "none", ok |-> FALSE, detected |-> FALSE, reloaded |-> FALSE,
     readable |-> FALSE, before |-> NeverLoaded, differs |-> FALSE]

\* The key file and the knowledge base before anything touched them.
SideIdle ==
    /\ api_key_file = NoKeyFile
    /\ key_call = NoKeyCall
    /\ kb = NoFiles
    /\ status_file = NoStatus
    /\ last_load = NeverLoaded
    /\ kb_call = NoKbCall

-----------------------------------------------------------------------------

Init ==
    /\ files \in [client_secrets : BOOLEAN, api_key : BOOLEAN,
                  service_account : BOOLEAN]
    /\ store \in {None, Corrupt}
                   \cup {OAuthCred(0, r, sc) :
                            r \in BOOLEAN, sc \in {FullScopes, MinimalScopes}}
    /\ dead \in IF store.k = "cred" THEN {{}, {0}} ELSE {{}}
    /\ issued = 0
    /\ client = "none"
    /\ auth_method = "auto"
    /\ self = NoSelf
    /\ pc = "idle"
    /\ idx = 0
    /\ log = <<>>
    /\ store0 = store
    /\ dead0 = dead
    /\ outcome = "none"
    /\ runs = 0
    /\ op = NoOp
    /\ removed = None
    /\ SideIdle

Next ==
    \/ \E am \in AuthMethodValues \cup {"bogus"} : AutopilotStart(am)
    \/ AutopilotLoop
    \/ AutopilotAfter
    \/ \E am \in {"auto", "oauth", "service_account", "api_key"} : V2Init(am)
    \/ ClientInit
    \/ \E kind \in {"full", "simple"} : New(kind, FALSE)
    \/ \E minimal \in BOOLEAN : New("debug", minimal)
    \/ FullAuthenticate
    \/ SimpleAuthenticate
    \/ \E force_refresh \in BOOLEAN : DebugAuthenticate(force_refresh)
    \/ TokenExpires
    \/ ClearCredentials
    \/ \E readable \in BOOLEAN : UploadVideo(readable)
    \/ UpdateVideo
    \/ GetChannelAnalytics
    \/ GetVideoAnalytics
    \/ GetChannelVideos

Spec == Init /\ [][Next]_vars

-----------------------------------------------------------------------------
\* token.pickle on its own: writes and reads of the file, for every
\* credential a client can hand to pickle.dump.

\* Access tokens range over 0..MaxToken here.
MaxToken == 1

\* The credentials a client can hold when it reaches its save.
Blobs ==
    {OAuthCred(t, r, sc) : t \in 0..MaxToken, r \in BOOLEAN,
                           sc \in {FullScopes, UploadScopes, MinimalScopes}}

\* `with open(token_file, 'wb') as token: pickle.dump(creds, token)` with
\* creds = c. store0 keeps the credential handed to the last write that
\* completed; log restarts at every write.
StoreSave(c, how) ==
    /\ store' = SaveTo(store, c, how)
    /\ IF how = "ok"
       THEN store0' = c /\ log' = <<"save">>
       ELSE store0' = store0 /\ log' = <<"save_failed">>
    /\ UNCHANGED <<files, dead, issued, client, auth_method, self, pc, idx,
                   dead0, outcome, runs, op,
                   removed>>
    /\ UNCHANGED side

\* `if token_file.exists(): creds = pickle.load(token)`, the result kept in
\* credentials.
StoreLoad ==
    /\ self' = [self EXCEPT !.credentials = LoadOrNone(store)]
    /\ log' = IF log # <<>> /\ log[1] = "save"
              THEN <<"save", "load">>
              ELSE <<"load">>
    /\ UNCHANGED <<files, store, dead, issued, client, auth_method, pc, idx,
                   store0, dead0, outcome, runs, op,
                   removed>>
    /\ UNCHANGED side

StoreInit ==
    /\ files = [client_secrets |-> TRUE, api_key |-> FALSE,
                service_account |-> FALSE]
    /\ store \in {None, Corrupt} \cup Blobs
    /\ dead = {}
    /\ issued = 0
    /\ client = "none"
    /\ auth_method = "oauth"
    /\ self = NoSelf
    /\ pc = "idle"
    /\ idx = 0
    /\ log = <<>>
    /\ store0 = None
    /\ dead0 = {}
    /\ outcome = "none"
    /\ runs = 0
    /\ op = NoOp
    /\ removed = None
    /\ SideIdle

StoreNext ==
    \/ \E c \in Blobs : \E how \in SaveFailures \cup {"ok"} : StoreSave(c, how)
    \/ StoreLoad

StoreSpec == StoreInit /\ [][StoreNext]_vars

-----------------------------------------------------------------------------
\* api_key.txt on its own: save_api_key and _load_api_key on one directory,
\* for every key text.

\* No client of the credential resolution exists or runs.
CoreIdle ==
    /\ files = [client_secrets |-> FALSE, api_key |-> FALSE,
                service_account |-> FALSE]
    /\ store = None
    /\ dead = {}
    /\ issued = 0
    /\ client = "none"
    /\ auth_method = "auto"
    /\ self = NoSelf
    /\ pc = "idle"
    /\ idx = 0
    /\ log = <<>>
    /\ store0 = None
    /\ dead0 = {}
    /\ outcome = "none"
    /\ runs = 0
    /\ op = NoOp
    /\ removed = None

core == <<files, store, dead, issued, client, auth_method, self, pc, idx,
          log, store0, dead0, outcome, runs, op, removed>>

\* save_api_key(configs_dir, api_key). key_call.api_key is what the last
\* save that returned True was given, saved what the last save returned.
SaveApiKey(api_key, how) ==
    /\ api_key_file' = AK_save_api_key(api_key_file, api_key, how).file
    /\ key_call' = [NoKeyCall EXCEPT
                       !.op = "save",
                       !.api_key = IF how = "ok" THEN api_key
                                   ELSE key_call.api_key,
                       !.saved = AK_save_api_key(api_key_file, api_key,
                                                 how).ok]
    /\ UNCHANGED <<kb, status_file, last_load, kb_call>>
    /\ UNCHANGED core

\* YouTubeClientAPIKey._load_api_key(configs_dir); api_key and saved stay.
LoadApiKey(configs_dir, readable) ==
    /\ key_call' = [key_call EXCEPT
                       !.op = "load", !.configs_dir = configs_dir,
                       !.readable = readable,
                       !.result = AK_load_api_key(configs_dir, api_key_file,
                                                  readable)]
    /\ UNCHANGED <<api_key_file, kb, status_file, last_load, kb_call>>
    /\ UNCHANGED core

KeyInit ==
    /\ CoreIdle
    /\ SideIdle

KeyNext ==
    \/ \E api_key \in Texts : \E how \in SaveKeyFailures \cup {"ok"} :
          SaveApiKey(api_key, how)
    \/ \E configs_dir \in BOOLEAN : \E readable \in BOOLEAN :
          LoadApiKey(configs_dir, readable)

KeySpec == KeyInit /\ [][KeyNext]_vars

-----------------------------------------------------------------------------
\* The knowledge loader on its own: loads and updates, with files written
\* and deleted in between.

\* The files on disk are not the files the status records: one was added,
\* deleted or given another content.
Differs == FileHashes(kb) # KL_file_hashes(status_file)

\* The effect of a load that returned r on what is remembered of it.
AfterLoad(r) ==
    IF r.ok
    THEN [loaded |-> TRUE, recorded |-> r.recorded, touched |-> FALSE]
    ELSE last_load

\* load_knowledge_base()
LoadKnowledgeBase(parses, writable) ==
    LET r == KL_load_knowledge_base(kb, status_file, parses, writable) IN
    /\ status_file' = r.status
    /\ last_load' = AfterLoad(r)
    /\ kb_call' = [NoKbCall EXCEPT !.op = "load", !.ok = r.ok,
                                   !.before = last_load,
                                   !.differs = Differs]
    /\ UNCHANGED <<kb, api_key_file, key_call>>
    /\ UNCHANGED core

\* update_knowledge_base(); before and differs keep what held when it was
\* called.
UpdateKnowledgeBase(readable, parses, writable) ==
    LET u == KL_update_knowledge_base(kb, status_file, readable, parses,
                                      writable) IN
    /\ status_file' = u.load.status
    /\ last_load' = IF u.reloaded THEN AfterLoad(u.load) ELSE last_load
    /\ kb_call' = [op |-> "update", ok |-> u.load.ok,
                   detected |-> u.detected, reloaded |-> u.reloaded,
                   readable |-> readable, before |-> last_load,
                   differs |-> Differs]
    /\ UNCHANGED <<kb, api_key_file, key_call>>
    /\ UNCHANGED core

\* The environment creates a knowledge file or gives one another content.
\* kb_call starts over: it describes the last step when that was a call.
WriteFile(p, c) ==
    /\ IF p \in DOMAIN kb THEN kb[p] # c ELSE TRUE
    /\ kb' = [q \in DOMAIN kb \cup {p} |-> IF q = p THEN c ELSE kb[q]]
    /\ last_load' = [last_load EXCEPT !.touched = TRUE]
    /\ kb_call' = NoKbCall
    /\ UNCHANGED <<status_file, api_key_file, key_call>>
    /\ UNCHANGED core

\* The environment deletes a knowledge file.
DeleteFile(p) ==
    /\ p \in DOMAIN kb
    /\ kb' = [q \in DOMAIN kb \ {p} |-> kb[q]]
    /\ last_load' = [last_load EXCEPT !.touched = TRUE]
    /\ kb_call' = NoKbCall
    /\ UNCHANGED <<status_file, api_key_file, key_call>>
    /\ UNCHANGED core

KbInit ==
    /\ CoreIdle
    /\ api_key_file = NoKeyFile
    /\ key_call = NoKeyCall
    /\ kb \in KnowledgeBases
    /\ status_file = NoStatus
    /\ last_load = NeverLoaded
    /\ kb_call = NoKbCall

KbNext ==
    \/ \E parses \in BOOLEAN : \E writable \in BOOLEAN :
          LoadKnowledgeBase(parses, writable)
    \/ \E readable \in BOOLEAN : \E parses \in BOOLEAN :
          \E writable \in BOOLEAN :
             UpdateKnowledgeBase(readable, parses, writable)
    \/ \E p \in Paths : \E c \in Contents : WriteFile(p, c)
    \/ \E p \in Paths : DeleteFile(p)

KbSpec == KbInit /\ [][KbNext]_vars

-----------------------------------------------------------------------------
\* Reading the log of the current resolution

Strategies == {"oauth", "api_key", "service_account"}

\* The strategy initializers the current resolution invoked, in order.
Tried == SelectSeq(log, LAMBDA e : e \in Strategies)

\* Their results ("ok" or "fail"), in the same order.
Results == SelectSeq(log, LAMBDA e : e \in {"ok", "fail"})

Count(e) == Cardinality({i \in 1..Len(log) : log[i] = e})

Logged(e) == \E i \in 1..Len(log) : log[i] = e

\* The resolution has ended.
Ended == pc = "idle" /\ outcome # "none"

\* token.pickle held an expired OAuth credential when the resolution started.
FoundExpired == store0.k = "cred" /\ store0.token \in dead0

\* token.pickle held a valid OAuth credential when the resolution started.
FoundValid == store0.k = "cred" /\ store0.token \notin dead0

AutoOrder == <<"oauth", "api_key", "service_account">>

Explicit == {"oauth", "api_key", "service_account"}

-----------------------------------------------------------------------------
\* C1: in one resolution of YouTubeAutopilot._initialize_services, no
\* strategy initializer is invoked after one has returned success.
C1_NoAttemptAfterSuccess ==
    client = "autopilot" =>
        \A i, j \in 1..Len(log) :
            (i < j /\ log[i] = "ok") => log[j] \notin Strategies

\* C1 witness: auto mode ended with API key succeeding after OAuth failed,
\* and the service account strategy, whose file is present, was not invoked.
C1_Witness ==
    /\ client = "autopilot" /\ auth_method = "auto" /\ Ended
    /\ Tried = <<"oauth", "api_key">>
    /\ Results = <<"fail", "ok">>
    /\ files.service_account

\* C2: a failed strategy never ends the resolution of YouTubeAutopilot by
\* itself: the loop is left on a failure only when the whole list has been
\* tried, and the terminal failure is raised only after every listed
\* strategy was tried and none succeeded.
C2_FailureFallsThrough ==
    (client = "autopilot" /\ auth_method \in AuthMethodValues) =>
        /\ (pc = "after" /\ Results # <<>> /\ Results[Len(Results)] = "fail")
              => Tried = AuthMethods(auth_method)
        /\ (Ended /\ outcome = "raised")
              => /\ Tried = AuthMethods(auth_method)
                 /\ ~Logged("ok")

\* C2 witness: auto mode raised the terminal failure after all three
\* strategies were tried, one of them failing by an exception inside build().
C2_Witness ==
    /\ client = "autopilot" /\ auth_method = "auto" /\ Ended
    /\ outcome = "raised"
    /\ Tried = AutoOrder
    /\ Logged("build")

\* C3 (as claimed): a stored credential that is expired and has no refresh
\* token, once restored by an OAuth client, is never returned, never handed
\* to a service handle and never written back to token.pickle (no save
\* happens unless a flow has produced a new credential to save).
C3_ExpiredUnrefreshableNeverUsed ==
    (/\ client \in {"autopilot", "v2", "debug", "client"}
     /\ FoundExpired /\ ~store0.refresh_token /\ Logged("load"))
    => /\ self.credentials # store0
       /\ self.youtube # store0
       /\ Logged("save") => Logged("flow")

\* C4: when token.pickle holds a valid credential, a resolution calls no
\* refresh and starts no acquisition, and an OAuth session it ends with is
\* built from the restored credential itself. (YouTubeOAuthDebugClient is
\* covered when it restores the credential, i.e. without force_refresh.)
C4_ValidNeverRefreshed ==
    (FoundValid /\ (client = "debug" => Logged("load"))) =>
        /\ ~Logged("refresh") /\ ~Logged("acquire") /\ ~Logged("flow")
        /\ (outcome = "ok" /\ self.youtube.k = "cred") => self.youtube = store0
        /\ (outcome = "ok" /\ self.credentials.k = "cred")
              => self.credentials = store0

\* C4 witness: YouTubeAutopilot ended on the OAuth strategy with the handle
\* built from the valid stored credential.
C4_Witness ==
    /\ client = "autopilot" /\ Ended /\ outcome = "ok"
    /\ FoundValid /\ store0.refresh_token /\ Logged("load")
    /\ self.youtube = store0

\* C5: when a resolution restores a stored credential that is expired and
\* has a refresh token, it calls refresh exactly once, whether the refresh
\* succeeds or is denied.
C5_ExactlyOneRefresh ==
    (FoundExpired /\ store0.refresh_token /\ Logged("load"))
        => Count("refresh") = 1

\* C5 witness: YouTubeAutopilot's refresh was denied, the flow ran as the
\* fallback and refresh was not called again.
C5_Witness ==
    /\ client = "autopilot" /\ Ended
    /\ FoundExpired /\ store0.refresh_token
    /\ Logged("refresh_denied") /\ Logged("flow")
    /\ Count("refresh") = 1

\* C6 (as claimed): whenever a refresh succeeded and the authentication
\* reported success with an OAuth session, token.pickle holds the credential
\* the session uses.
C6_RefreshedIsPersisted ==
    (/\ Ended /\ outcome = "ok"
     /\ Logged("refresh") /\ ~Logged("refresh_denied")
     /\ self.youtube.k = "cred")
    => store = self.youtube

\* C7 (as claimed): in the clients able to acquire a credential, a denied
\* refresh is followed by an acquisition attempt in the same authentication.
C7_DeniedRefreshThenAcquire ==
    (/\ client \in {"autopilot", "v2", "debug", "simple", "client"}
     /\ Logged("refresh_denied"))
    => \E i, j \in 1..Len(log) :
          i < j /\ log[i] = "refresh_denied" /\ log[j] = "acquire"

\* C8 (as claimed): with only an expired, refreshable token.pickle in the
\* configuration directory, YouTubeAutopilot in auto mode ends in success
\* after exactly one refresh call and token.pickle holds the refreshed
\* credential (unless the authorization server denied that refresh).
C8_TokenOnlyDirectoryResolves ==
    (/\ client = "autopilot" /\ auth_method = "auto" /\ Ended
     /\ ~files.client_secrets /\ ~files.api_key /\ ~files.service_account
     /\ FoundExpired /\ store0.refresh_token)
    => \/ Logged("refresh_denied")
       \/ /\ outcome = "ok"
          /\ Count("refresh") = 1
          /\ store.k = "cred" /\ store.token \notin dead0
          /\ store = self.credentials

\* C9: in auto mode YouTubeAutopilot tries OAuth, then API key, then service
\* account, each only after every strategy before it was tried and failed.
C9_AutoOrder ==
    (client = "autopilot" /\ auth_method = "auto") =>
        /\ Len(Tried) <= Len(AutoOrder)
        /\ Tried = SubSeq(AutoOrder, 1, Len(Tried))
        /\ \A j \in 1..Len(Tried) : \A i \in 1..(j - 1) : Results[i] = "fail"

\* C9 witness: the service account strategy succeeded after OAuth and API
\* key were tried, in that order, and failed.
C9_Witness ==
    /\ client = "autopilot" /\ auth_method = "auto" /\ Ended
    /\ Tried = <<"oauth", "api_key", "service_account">>
    /\ Results = <<"fail", "fail", "ok">>

\* C10: with one strategy configured explicitly, YouTubeAutopilot and
\* YouTubeClientV2 try no other strategy, and when that strategy fails the
\* resolution fails with no handle built.
C10_ExplicitOnly ==
    (client \in {"autopilot", "v2"} /\ auth_method \in Explicit) =>
        /\ Len(Tried) <= 1
        /\ \A i \in 1..Len(Tried) : Tried[i] = auth_method
        /\ (Ended /\ ~Logged("ok"))
              => outcome \in {"raised", "failed"} /\ self.youtube = None

\* C10 witness: YouTubeAutopilot configured for api_key found no key and
\* raised, although service_account.json was there to fall back on.
C10_Witness ==
    /\ client = "autopilot" /\ auth_method = "api_key" /\ Ended
    /\ Tried = <<"api_key">> /\ Results = <<"fail">>
    /\ outcome = "raised"
    /\ files.service_account

\* The configuration directory held none of the three input files and no
\* token.pickle when the resolution started.
EmptyDirectory ==
    /\ ~files.client_secrets /\ ~files.api_key /\ ~files.service_account
    /\ store0 = None

\* C11 (as claimed): against an empty configuration directory, auto mode of
\* YouTubeAutopilot ends with the terminal failure, and that failure carries
\* three causes, one configuration-missing cause per strategy.
C11_EmptyDirectoryThreeCauses ==
    (client = "autopilot" /\ auth_method = "auto" /\ Ended /\ EmptyDirectory)
    => /\ outcome = "raised"
       /\ Tried = AutoOrder
       /\ Len(TerminalFailure.causes) = 3
       /\ \A i \in 1..Len(TerminalFailure.causes) :
              TerminalFailure.causes[i] = "configuration_missing"

\* The content handle a strategy of YouTubeAutopilot builds on success.
HandleOf(method) ==
    CASE method = "oauth" -> "cred"
      [] method = "api_key" -> "key"
      [] OTHER -> "sa"

\* C12: every resolution of YouTubeAutopilot ends in exactly one of two
\* ways: it returns with youtube_service set, the last strategy invoked
\* being the one that reported success and built that handle; or it raises
\* the terminal failure with youtube_service unset, after every listed
\* strategy was invoked and none reported success. It never returns normally
\* with youtube_service unset.
C12_ReturnsWithHandleOrRaises ==
    (client = "autopilot" /\ auth_method \in AuthMethodValues /\ Ended) =>
        \/ /\ outcome = "ok"
           /\ self.youtube # None
           /\ Results[Len(Results)] = "ok"
           /\ self.youtube.k = HandleOf(Tried[Len(Tried)])
        \/ /\ outcome = "raised"
           /\ self.youtube = None
           /\ Tried = AuthMethods(auth_method)
           /\ \A i \in 1..Len(Results) : Results[i] = "fail"

\* C12 witness: a resolution configured for OAuth alone returned with the
\* content handle built from the credential its flow had just acquired.
C12_Witness ==
    /\ client = "autopilot" /\ auth_method = "oauth" /\ Ended
    /\ outcome = "ok"
    /\ Logged("flow")
    /\ self.youtube.k = "cred" /\ self.youtube = store

\* The resolution of YouTubeAutopilot returned on the API key strategy.
ResolvedByApiKey ==
    /\ client = "autopilot" /\ Ended /\ outcome = "ok"
    /\ Tried # <<>> /\ Tried[Len(Tried)] = "api_key"

\* C13: a session of YouTubeAutopilot resolved through the API key strategy,
\* whatever failed before it, has no analytics handle, reports no analytics
\* access, and its content handle is the one built from the developer key
\* alone, carrying no credential.
C13_ApiKeySessionReadOnly ==
    ResolvedByApiKey =>
        /\ self.analytics = None
        /\ ~AP_test_connection(self).analytics_api
        /\ self.youtube = KeyHandle

\* C13 witness: the OAuth strategy got as far as build() with a credential
\* and failed there, then the API key strategy built the session.
C13_Witness ==
    /\ ResolvedByApiKey /\ auth_method = "auto"
    /\ Tried = <<"oauth", "api_key">>
    /\ Count("build") = 2
    /\ self.credentials.k = "cred"
    /\ self.analytics = None

\* C14 (as claimed): on a session resolved through the API key strategy,
\* upload_video (given a readable file) and update_video end at a local
\* capability check: no request is issued.
C14_ApiKeyWriteRefusedLocally ==
    (ResolvedByApiKey /\ op.name \in {"upload_video", "update_video"})
        => op.did # "request"

\* C15 (as claimed): in YouTubeOAuthDebugClient, a session built on a
\* restored credential that was granted read access alone has no analytics
\* handle and reports no upload access, whatever scope list the client was
\* constructed with.
C15_CapabilitiesFromGrantedScopes ==
    (/\ client = "debug" /\ Ended /\ outcome = "ok"
     /\ Logged("load") /\ ~Logged("flow")
     /\ self.youtube.k = "cred" /\ self.youtube.scopes = MinimalScopes)
    => /\ self.analytics = None
       /\ ~DB_test_connection(self).upload_access

\* C16 (as claimed): when the identity probe of YouTubeAutopilot or
\* YouTubeClientFull fails (an exception, or no channel in the answer), the
\* session is still returned with its content handle, and its channel
\* identity is absent.
C16_ProbeFailureNotFatal ==
    Logged("no_channel") =>
        /\ outcome = "ok"
        /\ self.youtube # None
        /\ ~self.channel_id

\* C17 (as claimed): on a session of YouTubeAutopilot whose channel identity
\* is absent, get_channel_analytics, get_video_analytics and
\* get_channel_videos return at their guard: none of them issues a request.
C17_NoIdentityNoRequest ==
    (/\ HasSession /\ ~self.channel_id
     /\ op.name \in {"get_channel_analytics", "get_video_analytics",
                      "get_channel_videos"})
    => op.did = "refused"

\* The second or a later resolution of the behaviour, by YouTubeAutopilot,
\* found a valid credential in token.pickle.
LaterResolutionFoundValid ==
    client = "autopilot" /\ runs >= 2 /\ FoundValid

\* C18 (as claimed): a resolution of YouTubeAutopilot that follows another
\* and finds a valid credential in token.pickle makes no network call: no
\* refresh, no token exchange, no identity probe.
C18_SecondResolutionNoNetwork ==
    LaterResolutionFoundValid =>
        /\ ~Logged("refresh") /\ ~Logged("acquire") /\ ~Logged("flow")
        /\ ~Logged("probe")

\* C18 (amended): such a resolution calls no refresh and starts no token
\* exchange; the only request it makes is the identity probe of
\* _get_channel_info, once, when it returns a session.
C18_SecondResolutionOnlyProbes ==
    LaterResolutionFoundValid =>
        /\ ~Logged("refresh") /\ ~Logged("acquire") /\ ~Logged("flow")
        /\ Count("probe") = (IF Ended /\ outcome = "ok" THEN 1 ELSE 0)

\* C18 witness: the second resolution restored the valid credential, built
\* the session from it and probed once.
C18_Witness ==
    /\ LaterResolutionFoundValid /\ Ended /\ outcome = "ok"
    /\ Logged("load") /\ Count("probe") = 1
    /\ self.youtube = store0 /\ store = store0

\* C19 (as claimed): after any write of token.pickle, interrupted or not,
\* the file holds the complete previous credential or a complete new one.
C19_PersistIsAtomic ==
    (Logged("save") /\ store0.k # "corrupt") => store.k # "corrupt"

C21_ClearedNeverComesBack ==
    (client \in {"debug", "simple"} /\ removed.k = "cred") =>
        /\ store # removed
        /\ ~(Logged("build") /\ outcome = "ok" /\ self.youtube = removed)

\* C22 (as claimed): every call authenticate(force_refresh=True) of
\* YouTubeOAuthDebugClient enters _run_oauth_flow, whatever token.pickle and
\* the object's credentials field hold.
C22_ForceRefreshRunsFlow ==
    (client = "debug" /\ Logged("force")) => Logged("acquire")

\* The operations of YouTubeAutopilot that use the analytics API.
AnalyticsOperations == {"get_channel_analytics", "get_video_analytics"}

\* C23 (as claimed): after a successful resolution of YouTubeAutopilot or an
\* authenticate of YouTubeClientFull that returned True, and as long as no
\* operation of the analytics API has been called, no analytics handle has
\* been constructed.
C23_HandlesAreLazy ==
    (/\ client \in {"autopilot", "full"} /\ Ended /\ outcome = "ok"
     /\ op.name \notin AnalyticsOperations)
    => self.analytics = None

\* The calls the current resolution logged for strategy `name`, between its
\* invocation and its result.
EventsOf(name) ==
    LET at == {i \in 1..Len(log) : log[i] = name} IN
    IF at = {} THEN <<>>
    ELSE LET i == CHOOSE x \in at : \A y \in at : x <= y
             ends == {j \in (i + 1)..Len(log) : log[j] \in {"ok", "fail"}}
             j == IF ends = {} THEN Len(log) + 1
                  ELSE CHOOSE x \in ends : \A y \in ends : x <= y
         IN  SubSeq(log, i + 1, j - 1)

\* The calls by which a strategy restores, refreshes, acquires, persists or
\* builds.
Effects == {"load", "sa_load", "refresh", "flow", "save", "build"}

\* Whether the input file of strategy `name` is present.
InputPresent(name) ==
    CASE name = "oauth" -> files.client_secrets
      [] name = "api_key" -> files.api_key
      [] OTHER -> files.service_account

\* C24 (as claimed): in YouTubeAutopilot and YouTubeClientV2, a strategy
\* whose input file is absent makes none of the calls that restore, refresh,
\* acquire, persist or build: it only reports failure.
C24_SkippedStrategyHasNoEffect ==
    client \in {"autopilot", "v2"} =>
        \A name \in Strategies :
            (Logged(name) /\ ~InputPresent(name)) =>
                \A i \in 1..Len(EventsOf(name)) :
                    EventsOf(name)[i] \notin Effects

\* C25 (as claimed): whenever authenticate of YouTubeOAuthDebugClient
\* returned True, the content handle is built from the credential in use and
\* token.pickle holds that credential.
C25_DebugTrueMeansBuiltAndSaved ==
    (client = "debug" /\ Ended /\ outcome = "ok") =>
        /\ self.credentials.k = "cred"
        /\ self.youtube = self.credentials
        /\ store = self.credentials

\* The name get_auth_method has for a strategy.
AuthMethodName(name) ==
    CASE name = "oauth" -> "OAuth 2.0"
      [] name = "api_key" -> "API Key"
      [] OTHER -> "Service Account"

\* C26 (as claimed): after a resolution of YouTubeAutopilot that returned,
\* get_auth_method names the strategy that built youtube_service, the last
\* one invoked.
C26_AuthMethodNamesTheBuilder ==
    (client = "autopilot" /\ Ended /\ outcome = "ok") =>
        AP_get_auth_method(self) = AuthMethodName(Tried[Len(Tried)])

\* The OAuth strategy of YouTubeAutopilot got a credential by refresh or by
\* the flow and then failed at writing token.pickle.
OAuthSaveFailed ==
    LET e == EventsOf("oauth") IN
    /\ client = "autopilot"
    /\ e # <<>> /\ e[Len(e)] = "save"
    /\ Logged("flow") \/ (Logged("refresh") /\ ~Logged("refresh_denied"))

\* C27: when the write of token.pickle fails in _initialize_oauth after a
\* successful refresh or acquisition, the OAuth strategy reports failure, no
\* field of the object holds an OAuth credential or a handle built from one,
\* and in auto mode the loop goes on to the API key strategy.
C27_SaveFailureFailsOAuth ==
    OAuthSaveFailed =>
        /\ Results[1] = "fail"
        /\ self.credentials.k # "cred" /\ self.youtube.k # "cred"
        /\ self.analytics.k # "cred"
        /\ Len(Tried) = 1 => self.credentials = None /\ self.youtube = None
        /\ (auth_method = "auto" /\ pc # "loop")
              => Len(Tried) >= 2 /\ Tried[2] = "api_key"

\* C27 witness: pickle.dump failed on the credential the flow had returned,
\* leaving token.pickle unreadable, and auto mode ended on the API key.
C27_Witness ==
    /\ OAuthSaveFailed /\ auth_method = "auto" /\ Ended
    /\ Logged("flow") /\ store = Corrupt
    /\ Tried = <<"oauth", "api_key">> /\ outcome = "ok"
    /\ self.credentials = None

\* C28: in YouTubeAutopilot, YouTubeClientV2 and YouTubeOAuthDebugClient, a
\* token.pickle that cannot be unpickled counts as no credential: the
\* resolution that read it calls no refresh and goes on, after the failed
\* load, to the acquisition of the OAuth strategy.
C28_UnreadableTokenIsAbsent ==
    (/\ client \in {"autopilot", "v2", "debug"}
     /\ store0 = Corrupt /\ Logged("load"))
    => /\ ~Logged("refresh")
       /\ \E i, j \in 1..Len(log) :
             i < j /\ log[i] = "load" /\ log[j] = "acquire"

\* C28 witness: YouTubeAutopilot read an unreadable token.pickle, ran the
\* flow and replaced the file with the credential acquired.
C28_Witness ==
    /\ client = "autopilot" /\ Ended /\ outcome = "ok"
    /\ store0 = Corrupt /\ Logged("load") /\ Logged("flow")
    /\ store.k = "cred" /\ self.youtube = store

\* C29 (as claimed): in every client, a resolution that restores a valid
\* credential from token.pickle writes nothing: no save is called and the
\* file is as the resolution found it.
C29_ValidLeavesStoreAlone ==
    (FoundValid /\ (client = "debug" => Logged("load"))) =>
        /\ ~Logged("save")
        /\ store = store0

\* C30: in YouTubeClientV2 with auth_method "auto", the service account
\* strategy is attempted first, OAuth only after it produced no credential;
\* and when service_account.json loaded, token.pickle is not read and no
\* acquisition is started.
C30_V2ServiceAccountFirst ==
    (client = "v2" /\ auth_method = "auto" /\ Tried # <<>>) =>
        /\ Tried[1] = "service_account"
        /\ Logged("oauth") => Tried = <<"service_account", "oauth">>
                                /\ Results[1] = "fail"
        /\ Results[1] = "ok"
              => /\ Tried = <<"service_account">>
                 /\ ~Logged("load") /\ ~Logged("acquire") /\ ~Logged("flow")
                 /\ store = store0

\* C30 witness: the service account credential was loaded while a valid
\* token.pickle and client_secrets.json were there, and OAuth was not tried.
C30_Witness ==
    /\ client = "v2" /\ auth_method = "auto" /\ Ended /\ outcome = "ok"
    /\ FoundValid /\ files.client_secrets
    /\ Tried = <<"service_account">>
    /\ self.youtube = SACred

\* C31: an auth_method outside the known values makes the constructor of
\* YouTubeAutopilot and of YouTubeClientV2 raise before any strategy is
\* attempted: nothing is read, token.pickle is not written and no credential
\* or handle is held.
C31_UnknownMethodRejected ==
    (/\ Ended
     /\ \/ client = "autopilot"
           /\ auth_method \notin {"auto", "oauth", "api_key", "service_account"}
        \/ client = "v2"
           /\ auth_method \notin {"auto", "oauth", "service_account"})
    => /\ outcome = "raised"
       /\ log = <<>>
       /\ store = store0
       /\ self.credentials = None /\ self.youtube = None

\* C31 witness: YouTubeClientV2 was given "api_key" and raised, with a valid
\* token.pickle and service_account.json there to be used.
C31_Witness ==
    /\ client = "v2" /\ auth_method = "api_key" /\ Ended
    /\ outcome = "raised"
    /\ FoundValid /\ files.service_account

\* token.pickle as YouTubeClientFull found it offers nothing to restore:
\* absent, unreadable, or expired without a refresh token.
NothingToRestore ==
    \/ store0.k \in {"none", "corrupt"}
    \/ FoundExpired /\ ~store0.refresh_token

C33_FullFalseMeansNoCredential ==
    (client = "full" /\ Ended /\ outcome = "failed") =>
        /\ self.credentials = None
        /\ ~FU_test_full_access(self).authenticated

\* C34 (as claimed): YouTubeClient and YouTubeClientV2 hold a content handle
\* only when authentication yielded a credential.
C34_NoCredentialNoHandle ==
    (client \in {"client", "v2"} /\ Ended /\ self.credentials = None)
        => self.youtube = None

-----------------------------------------------------------------------------
\* Reading the calls on api_key.txt

\* _load_api_key ran on the directory the last save_api_key wrote to, that
\* save returned True, and the read did not raise.
LoadedAfterSave ==
    /\ key_call.op = "load"
    /\ key_call.saved
    /\ key_call.configs_dir
    /\ key_call.readable

\* t neither starts nor ends with a blank or a line ending.
Bare(t) ==
    t = <<>> \/ (t[1] \notin {" ", "\n", "\r"}
                 /\ t[Len(t)] \notin {" ", "\n", "\r"})

CarriageReturnIn(t) == \E i \in 1..Len(t) : t[i] = "\r"

\* C35 (as claimed): save_api_key(dir, key) followed by _load_api_key(dir)
\* returns exactly key, for every key, surrounding whitespace included.
C35_ExactRoundTrip ==
    LoadedAfterSave =>
        key_call.result = [found |-> TRUE, text |-> key_call.api_key]

\* C35 (amended): save_api_key(dir, key) followed by _load_api_key(dir)
\* returns a key with no whitespace at either end; it is exactly key when
\* key has none at either end and holds no carriage return, and it is
\* another text otherwise.
C35_RoundTripUpToStrip ==
    LoadedAfterSave =>
        /\ key_call.result.found
        /\ Bare(key_call.result.text)
        /\ IF Bare(key_call.api_key) /\ ~CarriageReturnIn(key_call.api_key)
           THEN key_call.result.text = key_call.api_key
           ELSE key_call.result.text # key_call.api_key

\* C35 witness: a key with a blank in front and a line ending behind was
\* saved and came back as the one character between them.
C35_Witness ==
    /\ LoadedAfterSave
    /\ key_call.api_key = <<" ", "a", "\n">>
    /\ key_call.result = [found |-> TRUE, text |-> <<"a">>]

-----------------------------------------------------------------------------
\* Reading the calls on the knowledge loader

\* update_knowledge_base was called after a load_knowledge_base that
\* returned True and wrote its status.
UpdatedAfterLoad ==
    /\ kb_call.op = "update"
    /\ kb_call.before.loaded
    /\ kb_call.before.recorded

\* C36 (as claimed): after load_knowledge_base succeeded, an
\* update_knowledge_base with no file written or deleted in between detects
\* no change and does not reload, whatever the knowledge base holds, an
\* empty one included.
C36_UpdateAfterLoadIsQuiet ==
    (UpdatedAfterLoad /\ ~kb_call.before.touched /\ kb_call.readable)
        => ~kb_call.detected /\ ~kb_call.reloaded

\* C37 (as claimed): _detect_changes returns True whenever the files on
\* disk, as a set or in the content of any of them, differ from what the
\* last load recorded: an added, modified or deleted file is detected.
C37_EveryDifferenceDetected ==
    (UpdatedAfterLoad /\ kb_call.differs) => kb_call.detected

====
